---- MODULE Spec2Model ----
(***************************************************************************)
(* Model of rapidcheck's generator combinators                             *)
(* (include/rapidcheck/gen/Generator.hpp).                                 *)
(*                                                                         *)
(* A generator is a term (a record with a kind field k).  generate() is    *)
(* evaluated by the recursive operator Generate, which threads the state   *)
(* that generate() reads and writes: the implicit-parameter stacks (size,  *)
(* NoShrink flag, random engine) and a trace of the draws made.  A result  *)
(* is a record [tag, val, st]: tag = "val" for a returned value, otherwise *)
(* the name of the exception type that propagates, or "Aborted" when the   *)
(* build traps a signed overflow.                                          *)
(*                                                                         *)
(* param::CurrentNode is null (the path sample() takes from the top       *)
(* level) or the rose node of a tree-building draw; detail::pick calls    *)
(* generate() directly in the first case and RoseNode::pick in the second. *)
(***************************************************************************)
EXTENDS Integers, Sequences, FiniteSets, TLC

VARIABLES
    build,          \* the build: order of evaluation of function arguments,
                    \* and what a signed overflow does
    nodeStack,      \* ImplicitParam<param::CurrentNode>
    sizeStack,      \* ImplicitParam<param::Size>: stack of let() values
    noShrinkStack,  \* ImplicitParam<param::NoShrink>
    engines,        \* ImplicitParam<param::RandomEngine>: states of the engines let()
    pc,             \* "idle" before a call, "done" after it
    last,           \* the last call: its arguments and its outcome
    samples,        \* the calls of sample() so far: arguments and outcome
    sg,             \* shrink search: the generator of the failing value
    cur             \* shrink search: the smallest failing value so far

vars == <<build, nodeStack, sizeStack, noShrinkStack, engines, pc, last, samples, sg, cur>>

---------------------------------------------------------------------------
(* Bounds of the model *)

TBits == 3          \* width of the integer type T of ranged<T>
WordBits == 4       \* width of a word of the random engine (and of size_t)
MaxSize == 2        \* largest size of the calling context
MaxLen == 2         \* largest n of vector(n, g)
MaxArity == 2       \* largest N of tupleOf(g1, ..., gN) in a shrink
MaxMantissa == 5    \* largest mantissa of the short factors of scale
MaxExponent == 2    \* largest binary exponent of the short factors of scale
MaxEntrySize == 10  \* largest size at which scale is entered

(* Program constants *)

kNominalSize == 100
GiveUpAfter == 100  \* the literal of "(size - startSize) > 100"

\* more turns than a retry loop of the file can take
MaxTurns == 2 * GiveUpAfter + 2

---------------------------------------------------------------------------
(* Fixed-width integers.  A type is [signed, bits, promotes]: promotes    *)
(* says that the type is narrower than int, so that its values are        *)
(* promoted to int before any arithmetic; int is two bits wider than the  *)
(* type it promotes.                                                       *)

IntBitsOf(ty) == ty.bits + 2

WrapU(x, b) == x % (2 ^ b)

WrapS(x, b) == LET u == x % (2 ^ b) IN IF u >= 2 ^ (b - 1) THEN u - 2 ^ b ELSE u

Convert(x, ty) == IF ty.signed THEN WrapS(x, ty.bits) ELSE WrapU(x, ty.bits)

MinOf(ty) == IF ty.signed THEN -(2 ^ (ty.bits - 1)) ELSE 0

MaxOf(ty) == IF ty.signed THEN 2 ^ (ty.bits - 1) - 1 ELSE 2 ^ ty.bits - 1

ValuesOf(ty) == MinOf(ty) .. MaxOf(ty)

MakeUnsigned(ty) == [ty EXCEPT !.signed = FALSE]

Abs(x) == IF x < 0 THEN -x ELSE x

\* the % of C++ on signed operands: the sign of the dividend
CRem(a, b) == IF a < 0 THEN -(Abs(a) % Abs(b)) ELSE a % Abs(b)

TInt == [bits |-> TBits, signed |-> TRUE, promotes |-> FALSE]
TUInt == [bits |-> TBits, signed |-> FALSE, promotes |-> FALSE]
TSChar == [bits |-> TBits, signed |-> TRUE, promotes |-> TRUE]
TUChar == [bits |-> TBits, signed |-> FALSE, promotes |-> TRUE]
TSizeT == [bits |-> WordBits, signed |-> FALSE, promotes |-> FALSE]

\* uint8_t, whose width the source fixes
UInt8Bits == 8
TUInt8 == [bits |-> UInt8Bits, signed |-> FALSE, promotes |-> TRUE]

\* char, the T of character<T>(): as wide as uint8_t, which exists only
\* where a byte has UInt8Bits bits, and signed.  A word of the engine is below
\* 2^(UInt8Bits - 1), so that the sign of char shows on no value drawn.
TChar == [bits |-> UInt8Bits, signed |-> TRUE, promotes |-> TRUE]

\* the mantissa of a double and the int that holds a size, at their widths
DoubleMantBits == 53
IntBits == 32
MaxInt == (2 ^ (IntBits - 2) - 1) + 2 ^ (IntBits - 2)
MinInt == (-MaxInt) - 1

RangedTypes == {TInt, TUInt, TSChar, TUChar}

---------------------------------------------------------------------------
(* Implicit parameters: let(v) pushes, the destructor of the ImplicitParam *)
(* object that called let() pops, *p reads the top.                        *)

Let(stack, v) == Append(stack, v)

Restore(stack) == SubSeq(stack, 1, Len(stack) - 1)

Top(stack) == stack[Len(stack)]

currentSize(st) == Top(st.size)

(* Random engine: a full-period linear congruential generator on words    *)
(* of WordBits bits; the state after seeding is the seed.                  *)

EngineNext(e) == (5 * e + 3) % (2 ^ WordBits)

Seeds == 0 .. (2 ^ WordBits - 1)

---------------------------------------------------------------------------
(* Results and the trace *)

Value(v, st) == [st |-> st, tag |-> "val", val |-> v]

Throw(e, st) == [st |-> st, tag |-> e, val |-> 0]

Event(ev, st, x) ==
    [x |-> x, size |-> currentSize(st), ev |-> ev, noShrink |-> Top(st.noShrink)]

Logged(st, e) == [st EXCEPT !.log = Append(@, e)]

---------------------------------------------------------------------------
(* Generator terms *)

ArbitraryG(ty) == [ty |-> ty, k |-> "arbitrary"]
ConstantG(v) == [v |-> v, k |-> "constant"]
RangedG(ty, min, max) == [ty |-> ty, k |-> "ranged", min |-> min, max |-> max]
ResizeG(n, g) == [k |-> "resize", n |-> n, g |-> g]
NoShrinkG(g) == [k |-> "noShrink", g |-> g]
\* scale(k, g): the factor k is a double, written by its sign, its mantissa
\* m (the sequence of its bits, the lowest first, DoubleMantBits at most)
\* and its binary exponent -e: k = (-1)^neg * m * 2^-e
ScaleG(neg, m, e, g) == [e |-> e, k |-> "scale", g |-> g, neg |-> neg, m |-> m]
SuchThatG(g, pred) == [k |-> "suchThat", g |-> g, pred |-> pred]
OneOfG(gs) == [k |-> "oneOf", gs |-> gs]
VectorG(c, n, g) == [k |-> "vector", n |-> n, g |-> g, c |-> c]
CollectionG(c, g) == [k |-> "collection", g |-> g, c |-> c]
MappedG(g, f) == [k |-> "map", g |-> g, f |-> f]
RescueG(exc, g, v) == [v |-> v, k |-> "rescue", g |-> g, exc |-> exc]
LambdaG(f) == [k |-> "lambda", f |-> f]
TupleOfG(gs) == [k |-> "tupleOf", gs |-> gs]
PairOfG(g1, g2) == [k |-> "pairOf", g1 |-> g1, g2 |-> g2]
CharacterG == [k |-> "character"]
\* NonZero<T>, Positive<T>, Negative<T>, NonNegative<T>
SuchThatGenG(ty, pred) == [ty |-> ty, k |-> "suchThatGen", pred |-> pred]
nonZero(ty) == SuchThatGenG(ty, "nonZero")
\* collection<std::array<T, N>>(g)
ArrayG(n, g) == [k |-> "collection", n |-> n, g |-> g, c |-> "array"]
\* anyInvocation(callable), the callable taking one argument of type ty
AnyInvocationG(f, ty) == [ty |-> ty, k |-> "anyInvocation", f |-> f]

\* the predicates given to suchThat
Pred(p, x) ==
    CASE p = "never" -> FALSE
      [] p = "always" -> TRUE
      [] p = "nonZero" -> x # 0
      [] p = "positive" -> x > 0
      [] p = "negative" -> x < 0
      [] p = "nonNegative" -> x >= 0

\* the mappers given to map
Mapper(f, x) ==
    CASE f = "succ" -> x + 1
      [] f = "cast" -> Convert(x, TChar)

(* detail::CollectionBuilder<Container>: a sequence container accepts     *)
(* every element, a set-like container rejects an element it holds.       *)

InsertSorted(coll, x) ==
    LET n == Cardinality({i \in 1 .. Len(coll) : coll[i] < x})
    IN SubSeq(coll, 1, n) \o <<x>> \o SubSeq(coll, n + 1, Len(coll))

BuilderAdd(c, coll, x) ==
    IF c = "set"
    THEN IF \E i \in 1 .. Len(coll) : coll[i] = x
         THEN [coll |-> coll, ok |-> FALSE]
         ELSE [coll |-> InsertSorted(coll, x), ok |-> TRUE]
    ELSE [coll |-> Append(coll, x), ok |-> TRUE]

RECURSIVE Generate(_, _)

\* param::CurrentNode: nullptr, and the node of the value being generated
NullNode == 0
RootNode == 1

\* RoseNode::pick for a tree-building draw: the draw becomes a child of the
\* current node and the child's value is generate() run with the child as
\* the current node; under NoShrink no sub-node is registered
RoseNode_pick(g, st) ==
    IF Top(st.noShrink) THEN Generate(g, st)
    ELSE LET id == RootNode + Len(st.children) + 1
             r == Generate(g, [st EXCEPT
                     !.children = Append(@, [id |-> id, parent |-> Top(st.node)]),
                     !.node = Let(@, id)])
         IN [r EXCEPT !.st.node = Restore(@)]

\* detail::pick
pick(g, st) ==
    IF Top(st.node) # NullNode THEN RoseNode_pick(g, st) ELSE Generate(g, st)

\* Arbitrary<T> for an integer type: one word of the engine, as a T
Arbitrary_generate(g, st) ==
    LET e == EngineNext(Top(st.eng))
        st1 == [st EXCEPT !.eng[Len(st.eng)] = e]
    IN Value(Convert(e, g.ty), Logged(st1, Event("draw", st, e)))

Constant_generate(g, st) == Value(g.v, st)

\* m_max - m_min is computed in T when T is int or wider and signed: the
\* difference does not fit T, which is undefined behaviour
Ranged_overflows(ty, min, max) ==
    ~ty.promotes /\ ty.signed /\ max - min > MaxOf(ty)

\* m_min + value % (m_max - m_min), with the conversions of C++
RangedArith(ty, min, max, value) ==
    IF ty.promotes
    THEN LET d == WrapS(max - min, IntBitsOf(ty))
             r == CRem(value, d)
         IN Convert(WrapS(min + r, IntBitsOf(ty)), ty)
    ELSE IF ty.signed
    THEN LET d == WrapS(max - min, ty.bits)
             du == WrapU(d, ty.bits)
             r == value % du
         IN Convert(WrapU(WrapU(min, ty.bits) + r, ty.bits), ty)
    ELSE LET d == WrapU(max - min, ty.bits)
             r == value % d
         IN WrapU(min + r, ty.bits)

Ranged_generate(g, st) ==
    IF g.max < g.min THEN Throw("GenerationFailure", st)
    ELSE IF g.max = g.min THEN Value(g.max, st)
    ELSE LET r == pick(NoShrinkG(ResizeG(kNominalSize,
                                         ArbitraryG(MakeUnsigned(g.ty)))), st)
         IN IF r.tag # "val" THEN r
            ELSE IF Ranged_overflows(g.ty, g.min, g.max)
                    /\ st.build.overflow = "trap"
            THEN Throw("Aborted", r.st)
            ELSE [r EXCEPT !.val = RangedArith(g.ty, g.min, g.max, r.val)]

\* the size is restored on return only, not when an exception leaves
Resize_generate_leaky(g, st) ==
    LET r == Generate(g.g, [st EXCEPT !.size = Let(@, g.n)])
    IN IF r.tag = "val" THEN [r EXCEPT !.st.size = Restore(@)] ELSE r

Resize_generate(g, st) ==
    LET r == Generate(g.g, [st EXCEPT !.size = Let(@, g.n)])
    IN [r EXCEPT !.st.size = Restore(@)]

NoShrink_generate(g, st) ==
    LET r == Generate(g.g, [st EXCEPT !.noShrink = Let(@, TRUE)])
    IN [r EXCEPT !.st.noShrink = Restore(@)]

\* a / b converted from double to int: the fraction is discarded
Trunc(a, b) == IF a >= 0 THEN a \div b ELSE -((-a) \div b)

\* a / b rounded to the nearest int, halves away from zero
Round(a, b) == IF a >= 0 THEN (2 * a + b) \div (2 * b) ELSE -((2 * (-a) + b) \div (2 * b))

\* Natural numbers beyond the integers of the checker are sequences of bits,
\* the lowest first.
RECURSIVE Bits(_)
Bits(n) == IF n = 0 THEN <<>> ELSE <<n % 2>> \o Bits(n \div 2)

RECURSIVE ValueOfBits(_)
ValueOfBits(a) == IF a = <<>> THEN 0 ELSE a[1] + 2 * ValueOfBits(Tail(a))

\* a without its leading zeros
RECURSIVE Normal(_)
Normal(a) ==
    IF a = <<>> \/ a[Len(a)] = 1 THEN a ELSE Normal(SubSeq(a, 1, Len(a) - 1))

Zeros(n) == [i \in 1 .. n |-> 0]

\* a + b + c, c a carry
RECURSIVE AddBits(_, _, _)
AddBits(a, b, c) ==
    IF a = <<>> /\ b = <<>> THEN (IF c = 0 THEN <<>> ELSE <<1>>)
    ELSE LET x == IF a = <<>> THEN 0 ELSE a[1]
             y == IF b = <<>> THEN 0 ELSE b[1]
             ta == IF a = <<>> THEN <<>> ELSE Tail(a)
             tb == IF b = <<>> THEN <<>> ELSE Tail(b)
         IN <<(x + y + c) % 2>> \o AddBits(ta, tb, (x + y + c) \div 2)

\* a * n, n an integer of the checker
RECURSIVE MulBits(_, _)
MulBits(a, n) ==
    IF n = 0 THEN <<>>
    ELSE LET h == <<0>> \o MulBits(a, n \div 2)
         IN IF n % 2 = 1 THEN AddBits(a, h, 0) ELSE h

\* the double nearest to the natural number a: its DoubleMantBits leading
\* bits are kept, the rest is rounded to nearest, a tie to the even mantissa
RoundToDouble(a) ==
    LET n == Normal(a)
        s == Len(n) - DoubleMantBits
    IN IF s <= 0 THEN n
       ELSE LET kept == SubSeq(n, s + 1, Len(n))
                half == n[s] = 1
                rest == \E i \in 1 .. (s - 1) : n[i] = 1
                up == half /\ (rest \/ kept[1] = 1)
            IN Zeros(s) \o (IF up THEN AddBits(kept, <<1>>, 0) ELSE kept)

\* size * k in double, k = (-1)^neg * m * 2^-e: the size converts exactly,
\* an int being narrower than the mantissa of a double, and the product is
\* rounded to the nearest double; the result is the pair of its sign and
\* the numerator of its magnitude, the denominator being 2^e
DoubleProduct(size, neg, m) ==
    <<(size < 0) # neg, RoundToDouble(MulBits(m, Abs(size)))>>

\* the integral part of the double a * 2^-e
IntegralPart(a, e) ==
    IF e >= Len(a) THEN <<>>
    ELSE IF e >= 0 THEN SubSeq(a, e + 1, Len(a))
    ELSE Zeros(-e) \o a

\* the double a * 2^-e rounded to the nearest whole number, a half upward
RoundedPart(a, e) ==
    IF e >= 1 THEN IntegralPart(AddBits(a, Zeros(e - 1) \o <<1>>, 0), e)
    ELSE IntegralPart(a, e)

\* the conversion to int of the double whose sign is neg and whose integral
\* part is v: an integral part that no int holds is undefined behaviour, of
\* which the build gives the smallest int (the integer indefinite of
\* cvttsd2si) or the nearest int (the saturation of fcvtzs)
DoubleToInt(neg, v, bld) ==
    LET w == Normal(v)
    IN IF Len(w) < IntBits
       THEN (IF neg THEN -ValueOfBits(w) ELSE ValueOfBits(w))
       ELSE IF neg /\ w = Zeros(IntBits - 1) \o <<1>> THEN MinInt
       ELSE IF bld.convert = "indefinite" \/ neg THEN MinInt ELSE MaxInt

\* the product is rounded to the nearest int
Scale_generate_rounded(g, st) ==
    LET d == DoubleProduct(currentSize(st), g.neg, g.m)
        r == Generate(g.g, [st EXCEPT !.size =
                 Let(@, DoubleToInt(d[1], RoundedPart(d[2], g.e), st.build))])
    IN [r EXCEPT !.st.size = Restore(@)]

\* size.let(*size * m_scale): the double product, converted to int, which
\* discards the fraction
Scale_generate(g, st) ==
    LET d == DoubleProduct(currentSize(st), g.neg, g.m)
        r == Generate(g.g, [st EXCEPT !.size =
                 Let(@, DoubleToInt(d[1], IntegralPart(d[2], g.e), st.build))])
    IN [r EXCEPT !.st.size = Restore(@)]

\* gives up one attempt earlier
SuchThat_gaveUp_early(size, startSize) == (size - startSize) >= GiveUpAfter

SuchThat_gaveUp(size, startSize) == (size - startSize) > GiveUpAfter

\* every attempt is made at the size of entry: the local size is not used
SuchThat_turn_sameSize(g, startSize, ls) ==
    LET r == pick(NoShrinkG(ResizeG(startSize, g.g)), ls.r.st)
    IN IF r.tag # "val" THEN [ls EXCEPT !.run = FALSE, !.r = r]
       ELSE IF Pred(g.pred, r.val) THEN [ls EXCEPT !.run = FALSE, !.r = r]
       ELSE LET st1 == Logged(r.st, [Event("reject", r.st, ls.size - startSize)
                                        EXCEPT !.size = ls.size])
            IN IF SuchThat_gaveUp(ls.size + 1, startSize)
               THEN [ls EXCEPT !.run = FALSE, !.r = Throw("GenerationFailure", st1)]
               ELSE [ls EXCEPT !.r = Value(0, st1), !.size = ls.size + 1]

\* one turn of the while (true) of SuchThat::generate; ls is the state of
\* the loop: whether it still runs, the last result and the local size
SuchThat_turn(g, startSize, ls) ==
    LET r == pick(NoShrinkG(ResizeG(ls.size, g.g)), ls.r.st)
    IN IF r.tag # "val" THEN [ls EXCEPT !.run = FALSE, !.r = r]
       ELSE IF Pred(g.pred, r.val) THEN [ls EXCEPT !.run = FALSE, !.r = r]
       ELSE LET st1 == Logged(r.st, [Event("reject", r.st, ls.size - startSize)
                                        EXCEPT !.size = ls.size])
            IN IF SuchThat_gaveUp(ls.size + 1, startSize)
               THEN [ls EXCEPT !.run = FALSE, !.r = Throw("GenerationFailure", st1)]
               ELSE [ls EXCEPT !.r = Value(0, st1), !.size = ls.size + 1]

RECURSIVE SuchThat_while(_, _, _, _)

\* at most n turns of the loop, as long as it runs
SuchThat_while(g, startSize, ls, n) ==
    IF n = 0 \/ ~ls.run THEN ls
    ELSE IF n = 1 THEN SuchThat_turn(g, startSize, ls)
    ELSE SuchThat_while(g, startSize,
                        SuchThat_while(g, startSize, ls, n \div 2), n - n \div 2)

SuchThat_generate(g, st) ==
    LET startSize == currentSize(st)
        ls == SuchThat_while(g, startSize,
                             [size |-> startSize, r |-> Value(0, st), run |-> TRUE],
                             MaxTurns)
    IN IF ls.run THEN Throw("Diverged", ls.r.st) ELSE ls.r

RECURSIVE Multiplexer_pickWithId(_, _, _)

\* myId counted from 1: the first generator is never picked
Multiplexer_pickWithId_from1(gs, id, st) ==
    LET myId == Len(gs)
    IN IF Len(gs) = 1 THEN pick(gs[1], Logged(st, Event("pickWithId", st, 0)))
       ELSE IF id = myId THEN pick(gs[1], Logged(st, Event("pickWithId", st, myId - 1)))
       ELSE Multiplexer_pickWithId(Tail(gs), id, st)

\* gs are the generators of this Multiplexer and of those nested in it;
\* myId = sizeof...(Gens), the number of generators after the first
Multiplexer_pickWithId(gs, id, st) ==
    LET myId == Len(gs) - 1
    IN IF Len(gs) = 1 THEN pick(gs[1], Logged(st, Event("pickWithId", st, 0)))
       ELSE IF id = myId THEN pick(gs[1], Logged(st, Event("pickWithId", st, myId)))
       ELSE Multiplexer_pickWithId(Tail(gs), id, st)

OneOf_generate(g, st) ==
    LET n == Len(g.gs)
        r == pick(ResizeG(kNominalSize, RangedG(TInt, 0, n)), st)
    IN IF r.tag # "val" THEN r
       ELSE Multiplexer_pickWithId(g.gs, r.val, Logged(r.st, Event("id", r.st, r.val)))

\* gives up one attempt earlier
Vector_gaveUp_early(currentSize_, startSize) ==
    (currentSize_ - startSize) >= GiveUpAfter

Vector_gaveUp(currentSize_, startSize) == (currentSize_ - startSize) > GiveUpAfter

\* one evaluation of the condition of the while of Vector::generate and,
\* when add refuses the element, of its body; ls.r holds the collection
\* of the builder until the loop ends
Vector_turn(g, i, startSize, ls) ==
    LET r == pick(ResizeG(ls.size, NoShrinkG(g.g)), ls.r.st)
    IN IF r.tag # "val" THEN [ls EXCEPT !.run = FALSE, !.r = r]
       ELSE LET a == BuilderAdd(g.c, ls.r.val, r.val)
            IN IF a.ok
               THEN [ls EXCEPT !.run = FALSE,
                               !.r = Value(a.coll,
                                           Logged(r.st, [Event("accept", r.st, i)
                                                            EXCEPT !.size = ls.size]))]
               ELSE LET st1 == Logged(r.st, [Event("reject", r.st, i)
                                                EXCEPT !.size = ls.size])
                    IN IF Vector_gaveUp(ls.size + 1, startSize)
                       THEN [ls EXCEPT !.run = FALSE,
                                       !.r = Throw("GenerationFailure", st1)]
                       ELSE [ls EXCEPT !.r = Value(ls.r.val, st1),
                                       !.size = ls.size + 1]

RECURSIVE Vector_while(_, _, _, _, _)

\* at most n turns of the while, as long as it runs
Vector_while(g, i, startSize, ls, n) ==
    IF n = 0 \/ ~ls.run THEN ls
    ELSE IF n = 1 THEN Vector_turn(g, i, startSize, ls)
    ELSE Vector_while(g, i, startSize,
                      Vector_while(g, i, startSize, ls, n \div 2), n - n \div 2)

RECURSIVE Vector_for(_, _, _, _)

\* the for of Vector::generate from element i on
Vector_for(g, st, coll, i) ==
    IF ~(i < g.n) THEN Value(coll, st)
    ELSE LET startSize == currentSize(st)
             ls == Vector_while(g, i, startSize,
                                [size |-> startSize, r |-> Value(coll, st),
                                 run |-> TRUE], MaxTurns)
         IN IF ls.run THEN Throw("Diverged", ls.r.st)
            ELSE IF ls.r.tag # "val" THEN ls.r
            ELSE Vector_for(g, ls.r.st, ls.r.val, i + 1)

Vector_generate(g, st) == Vector_for(g, st, <<>>, 0)

RECURSIVE Collection_loop(_, _, _, _, _)

\* the for of Collection::generate: the result of add is not looked at
Collection_loop(g, st, coll, i, size) ==
    IF ~(i < size) THEN Value(coll, st)
    ELSE LET r == pick(NoShrinkG(g.g), st)
         IN IF r.tag # "val" THEN r
            ELSE Collection_loop(g, r.st, BuilderAdd(g.c, coll, r.val).coll,
                                 i + 1, size)

\* the length drawn from the closed range [0, size + 1]
Collection_generate_closed(g, st) ==
    LET r == pick(RangedG(TSizeT, 0, Convert(currentSize(st) + 2, TSizeT)), st)
    IN IF r.tag # "val" THEN r
       ELSE Collection_loop(g, Logged(r.st, Event("length", r.st, r.val)),
                            <<>>, 0, r.val)

Collection_generate(g, st) ==
    LET r == pick(RangedG(TSizeT, 0, Convert(currentSize(st) + 1, TSizeT)), st)
    IN IF r.tag # "val" THEN r
       ELSE Collection_loop(g, Logged(r.st, Event("length", r.st, r.val)),
                            <<>>, 0, r.val)

RECURSIVE Array_for(_, _, _, _)

\* the for of Collection<std::array<T, N>, Gen>::generate from element i
\* on: array[i] = *noShrink(m_generator), no length is drawn
Array_for(g, st, array, i) ==
    IF ~(i < g.n) THEN Value(array, st)
    ELSE LET r == pick(NoShrinkG(g.g), st)
         IN IF r.tag # "val" THEN r
            ELSE Array_for(g, r.st, Append(array, r.val), i + 1)

Array_generate(g, st) == Array_for(g, st, <<>>, 0)

\* detail::Quantifier<Callable>::operator(): the callable applied to a
\* value of arbitrary<Arg>
Quantifier_call(f, ty, st) ==
    LET r == pick(ArbitraryG(ty), st)
    IN IF r.tag # "val" THEN r ELSE [r EXCEPT !.val = Mapper(f, r.val)]

AnyInvocation_generate(g, st) == Quantifier_call(g.f, g.ty, st)

\* the generate() of the classes of IMPLEMENT_SUCH_THAT_GEN:
\* *suchThat<T>(predicate), suchThat<T> being suchThat over arbitrary<T>
SuchThatGen_generate(g, st) == pick(SuchThatG(ArbitraryG(g.ty), g.pred), st)

\* *oneOf(map(ranged<uint8_t>(1, 128), static_cast<T>), nonZero<T>()): the
\* byte of the first alternative is cast to a char of full width; the
\* arbitrary<T> of the second draws the chars of TBits bits, as every
\* Arbitrary of the model draws values of TBits bits
Character_generate(g, st) ==
    pick(OneOfG(<<MappedG(RangedG(TUInt8, 1, 128), "cast"), nonZero(TSChar)>>), st)

Mapped_generate(g, st) ==
    LET r == pick(g.g, st)
    IN IF r.tag # "val" THEN r ELSE [r EXCEPT !.val = Mapper(g.f, r.val)]

\* the catcher returns the value g.v
Rescue_generate(g, st) ==
    LET r == Generate(g.g, st)
    IN IF r.tag = g.exc THEN Value(g.v, r.st) ELSE r

\* the callables given to lambda: one reads gen::currentSize(), one
\* throws, one returns a std::unique_ptr (modelled as 0)
Lambda_generate(g, st) ==
    CASE g.f = "currentSize" ->
            Value(currentSize(st), Logged(st, Event("read", st, currentSize(st))))
      [] g.f = "throw" -> Throw("UserError", st)
      [] g.f = "unique" -> Value(0, st)

\* tuple_cat(tuple(*m_headGenerator), *m_tailGenerator): the build decides
\* which argument is evaluated first
TupleOf_generate(g, st) ==
    IF g.gs = <<>> THEN Value(<<>>, st)
    ELSE IF st.build.args = "ltr"
    THEN LET h == pick(Head(g.gs), st)
         IN IF h.tag # "val" THEN h
            ELSE LET t == pick(TupleOfG(Tail(g.gs)), h.st)
                 IN IF t.tag # "val" THEN t
                    ELSE Value(<<h.val>> \o t.val, t.st)
    ELSE LET t == pick(TupleOfG(Tail(g.gs)), st)
         IN IF t.tag # "val" THEN t
            ELSE LET h == pick(Head(g.gs), t.st)
                 IN IF h.tag # "val" THEN h
                    ELSE Value(<<h.val>> \o t.val, h.st)

\* a pair is modelled as the 2-tuple it is built from
PairOf_generate(g, st) == Generate(TupleOfG(<<g.g1, g.g2>>), st)

Generate(g, st) ==
    CASE g.k = "arbitrary" -> Arbitrary_generate(g, st)
      [] g.k = "constant" -> Constant_generate(g, st)
      [] g.k = "ranged" -> Ranged_generate(g, st)
      [] g.k = "resize" -> Resize_generate(g, st)
      [] g.k = "scale" -> Scale_generate(g, st)
      [] g.k = "noShrink" -> NoShrink_generate(g, st)
      [] g.k = "suchThat" -> SuchThat_generate(g, st)
      [] g.k = "oneOf" -> OneOf_generate(g, st)
      [] g.k = "vector" -> Vector_generate(g, st)
      [] g.k = "collection" ->
            IF g.c = "array" THEN Array_generate(g, st) ELSE Collection_generate(g, st)
      [] g.k = "anyInvocation" -> AnyInvocation_generate(g, st)
      [] g.k = "character" -> Character_generate(g, st)
      [] g.k = "suchThatGen" -> SuchThatGen_generate(g, st)
      [] g.k = "map" -> Mapped_generate(g, st)
      [] g.k = "rescue" -> Rescue_generate(g, st)
      [] g.k = "lambda" -> Lambda_generate(g, st)
      [] g.k = "tupleOf" -> TupleOf_generate(g, st)
      [] g.k = "pairOf" -> PairOf_generate(g, st)

---------------------------------------------------------------------------
(* The state machine: a call of generate() from the calling context *)

Context == [build |-> build, size |-> sizeStack, noShrink |-> noShrinkStack,
            log |-> <<>>, children |-> <<>>, node |-> nodeStack,
            eng |-> engines]

NoCall == [op |-> "none"]

Init ==
    /\ build \in [overflow : {"wrap", "trap"}, convert : {"indefinite", "saturate"},
                 args : {"ltr", "rtl"}]
    /\ nodeStack \in {<<NullNode>>, <<RootNode>>}
    /\ sizeStack \in {<<s>> : s \in 0 .. MaxSize}
    /\ noShrinkStack = <<FALSE>>
    /\ engines \in {<<s>> : s \in Seeds}
    /\ pc = "idle"
    /\ last = NoCall
    /\ samples = <<>>
    /\ sg = NoCall
    /\ cur = <<>>

\* a test case that starts with engine state 0 at the largest size
InitFixed == Init /\ engines = <<0>> /\ sizeStack = <<MaxSize>>

Call(op, g, args, r) ==
    /\ pc = "idle"
    /\ pc' = "done"
    /\ sizeStack' = r.st.size
    /\ noShrinkStack' = r.st.noShrink
    /\ engines' = r.st.eng
    /\ nodeStack' = r.st.node
    /\ last' = [tag |-> r.tag, val |-> r.val, log |-> r.st.log, g |-> g,
                children |-> r.st.children, args |-> args, op |-> op,
                before |-> Context]
    /\ UNCHANGED <<build, samples, sg, cur>>

\* ranged<T>(min, max).generate()
RangedGenerate ==
    \E ty \in RangedTypes : \E min \in ValuesOf(ty), max \in ValuesOf(ty) :
        LET g == RangedG(ty, min, max)
        IN Call("ranged", g, <<>>, Generate(g, Context))

\* the generators that suchThat, vector and collection are applied to
ElementGens ==
    <<ArbitraryG(TInt), ConstantG(1), RangedG(TInt, 0, 2),
      LambdaG("currentSize"), LambdaG("throw")>>

Preds == {"never", "always", "nonZero", "positive", "negative", "nonNegative"}

Containers == {"seq", "set"}

\* suchThat(g, pred).generate()
SuchThatGenerate ==
    \E i \in 1 .. Len(ElementGens), p \in Preds :
        LET g == SuchThatG(ElementGens[i], p)
        IN Call("suchThat", g, <<>>, Generate(g, Context))

\* vector<Container>(n, g).generate()
VectorGenerate ==
    \E i \in 1 .. Len(ElementGens), c \in Containers, n \in 0 .. MaxLen :
        LET g == VectorG(c, n, ElementGens[i])
        IN Call("vector", g, <<>>, Generate(g, Context))

\* collection<Container>(g).generate()
CollectionGenerate ==
    \E i \in 1 .. Len(ElementGens), c \in Containers :
        LET g == CollectionG(c, ElementGens[i])
        IN Call("collection", g, <<>>, Generate(g, Context))

\* collection<std::array<T, N>>(g).generate()
ArrayGenerate ==
    \E i \in 1 .. Len(ElementGens), n \in 0 .. MaxLen :
        LET g == ArrayG(n, ElementGens[i])
        IN Call("collection", g, <<>>, Generate(g, Context))

\* the argument lists of oneOf: the constant 10 + i is the i-th generator
OneOfLists ==
    <<<<ConstantG(11)>>,
      <<ConstantG(11), ConstantG(12)>>,
      <<ConstantG(11), ConstantG(12), ConstantG(13)>>,
      <<LambdaG("currentSize"), LambdaG("currentSize")>>,
      <<ArbitraryG(TInt), LambdaG("throw"), LambdaG("currentSize")>>>>

\* oneOf(g1, ..., gN).generate()
OneOfGenerate ==
    \E i \in 1 .. Len(OneOfLists) :
        LET g == OneOfG(OneOfLists[i])
        IN Call("oneOf", g, <<>>, Generate(g, Context))

\* the scoped overrides: resize(n, g), scale(k, g), noShrink(g)
Overrides == {"resize0", "resize5", "half", "twice", "noShrink"}

Wrap(w, g) ==
    CASE w = "resize0" -> ResizeG(0, g)
      [] w = "resize5" -> ResizeG(5, g)
      [] w = "half" -> ScaleG(FALSE, Bits(1), 1, g)
      [] w = "twice" -> ScaleG(FALSE, Bits(2), 0, g)
      [] w = "noShrink" -> NoShrinkG(g)

\* what runs inside the overrides: a reader of the size, and three failures
Bodies ==
    <<LambdaG("currentSize"), LambdaG("throw"),
      SuchThatG(ConstantG(0), "never"), VectorG("set", 2, ConstantG(1))>>

Shapes == {"one", "two", "then", "rescued", "rescueInside"}

Scoped(shape, w1, w2, b) ==
    CASE shape = "one" -> Wrap(w1, b)
      [] shape = "two" -> Wrap(w1, Wrap(w2, b))
      [] shape = "then" ->
            Wrap(w1, TupleOfG(<<Wrap(w2, LambdaG("currentSize")), b>>))
      [] shape = "rescued" ->
            RescueG("GenerationFailure", Wrap(w1, Wrap(w2, b)), -1)
      [] shape = "rescueInside" ->
            Wrap(w1, RescueG("GenerationFailure", Wrap(w2, b), -1))

\* generate() of a generator built from resize, scale, noShrink and rescue
ScopedGenerate ==
    \E shape \in Shapes, w1 \in Overrides, w2 \in Overrides,
       i \in 1 .. Len(Bodies) :
        LET g == Scoped(shape, w1, w2, Bodies[i])
        IN Call("scoped", g, <<shape, w1, w2>>, Generate(g, Context))

NextRanged == RangedGenerate

NextGen ==
    \/ SuchThatGenerate
    \/ VectorGenerate
    \/ CollectionGenerate
    \/ ArrayGenerate
    \/ OneOfGenerate

SpecGen == Init /\ [][NextGen]_vars

NextScoped == ScopedGenerate

\* a test case that starts with engine state 0
InitScoped == Init /\ engines = <<0>>

SpecScoped == InitScoped /\ [][NextScoped]_vars

\* sample(sz, generator, seed) without the engine of its own: the draws
\* come from the engine of the calling context
sample_noEngine(sz, g, seed, st) ==
    LET r == pick(g, [st EXCEPT !.size = Let(@, sz)])
    IN [r EXCEPT !.st.size = Restore(@)]

\* sample(sz, generator, seed): generator() under the size sz and a new
\* engine made from seed; both are dropped when sample is left
sample(sz, g, seed, st) ==
    LET r == pick(g, [st EXCEPT !.size = Let(@, sz), !.eng = Let(@, seed)])
    IN [r EXCEPT !.st.size = Restore(@), !.st.eng = Restore(@)]

\* the generators given to sample
SampleGens ==
    <<RangedG(TInt, MinOf(TInt), MaxOf(TInt)),
      SuchThatG(ArbitraryG(TInt), "positive"),
      SuchThatG(RangedG(TInt, 0, 2), "never"),
      VectorG("set", 2, RangedG(TInt, 0, 3)),
      CollectionG("seq", ArbitraryG(TInt)),
      OneOfG(<<ConstantG(11), ArbitraryG(TInt), LambdaG("currentSize")>>),
      TupleOfG(<<ArbitraryG(TInt), ArbitraryG(TUInt)>>),
      PairOfG(ArbitraryG(TInt), MappedG(ArbitraryG(TUInt), "succ")),
      ScaleG(FALSE, Bits(1), 1, CollectionG("set", ArbitraryG(TInt))),
      RescueG("GenerationFailure",
              ResizeG(1, VectorG("set", 2, ConstantG(0))), <<>>),
      CharacterG,
      ArrayG(2, ArbitraryG(TInt)),
      AnyInvocationG("succ", TInt)>>

Sampled(args, r) ==
    /\ sizeStack' = r.st.size
    /\ noShrinkStack' = r.st.noShrink
    /\ engines' = r.st.eng
    /\ nodeStack' = r.st.node
    /\ samples' = Append(samples, [tag |-> r.tag, val |-> r.val,
                                   log |-> r.st.log, args |-> args])
    /\ UNCHANGED <<build, pc, last, sg, cur>>

\* the first call of sample
SampleFirst ==
    /\ samples = <<>>
    /\ \E sz \in 0 .. MaxSize, i \in 1 .. Len(SampleGens), seed \in Seeds :
          Sampled(<<sz, i, seed>>, sample(sz, SampleGens[i], seed, Context))

\* a draw made in the calling context between two calls of sample
DrawBetween ==
    /\ Len(samples) = 1
    /\ samples[1].tag # "Aborted"
    /\ pc = "idle"
    /\ LET r == pick(ArbitraryG(TUInt), Context)
       IN /\ engines' = r.st.eng
          /\ nodeStack' = r.st.node
          /\ pc' = "done"
          /\ UNCHANGED <<build, sizeStack, noShrinkStack, last, samples, sg, cur>>

\* a second call of sample with the arguments of the first
SampleAgain ==
    /\ Len(samples) = 1
    /\ samples[1].tag # "Aborted"
    /\ LET a == samples[1].args
       IN Sampled(a, sample(a[1], SampleGens[a[2]], a[3], Context))

NextSample == SampleFirst \/ DrawBetween \/ SampleAgain

SpecSample == InitFixed /\ [][NextSample]_vars

SpecRanged == Init /\ [][NextRanged]_vars

\* the bits of a number written in hexadecimal digits, the highest first
RECURSIVE HexBits(_)
HexBits(h) ==
    IF h = <<>> THEN <<>>
    ELSE LET d == h[Len(h)]
         IN <<d % 2, (d \div 2) % 2, (d \div 4) % 2, d \div 8>>
                \o HexBits(SubSeq(h, 1, Len(h) - 1))

\* the doubles of 0.6, 1.0 / 3 and 0.7, each a full mantissa and the
\* exponent of its denominator
FullDoubles ==
    { <<Normal(HexBits(<<1, 3, 3, 3, 3, 3, 3, 3, 3, 3, 3, 3, 3, 3>>)), DoubleMantBits>>,
      <<Normal(HexBits(<<1, 5, 5, 5, 5, 5, 5, 5, 5, 5, 5, 5, 5, 5>>)), DoubleMantBits + 1>>,
      <<Normal(HexBits(<<1, 6, 6, 6, 6, 6, 6, 6, 6, 6, 6, 6, 6, 6>>)), DoubleMantBits>> }

\* the factors given to scale, each <<neg, m, e>>: the short ones, whose
\* product with a size is exact (the exponent -(IntBits - 2) makes a factor
\* whose product no int holds), and the full mantissas, of either sign
Factors ==
    {<<neg, Bits(m), e>> : neg \in BOOLEAN, m \in 0 .. MaxMantissa,
                           e \in {-(IntBits - 2)} \cup (0 .. MaxExponent)}
      \cup {<<neg, d[1], d[2]>> : neg \in BOOLEAN, d \in FullDoubles}

\* the generators that scale is applied to: a reader of the size and a draw
ScaledGens == <<LambdaG("currentSize"), ArbitraryG(TInt)>>

\* scale(k, g).generate() entered at size n; resize accepts any int
ScaleGenerate ==
    \E n \in (-MaxEntrySize) .. MaxEntrySize, k \in Factors, i \in 1 .. Len(ScaledGens) :
        LET g == ScaleG(k[1], k[2], k[3], ScaledGens[i])
        IN Call("scale", g, <<n>>, Generate(ResizeG(n, g), Context))

NextScale == ScaleGenerate

\* a test case that starts with engine state 0 on a build of either
\* conversion; scale evaluates no argument list and no ranged
InitScale ==
    /\ Init
    /\ engines = <<0>>
    /\ nodeStack = <<NullNode>>
    /\ build.args = "ltr" /\ build.overflow = "wrap"

SpecScale == InitScale /\ [][NextScale]_vars

---------------------------------------------------------------------------
(* Shrinking.  A shrink iterator is modelled as the sequence of the       *)
(* candidates it yields.                                                   *)

nothing == <<>>

constant(xs) == xs

\* shrink::map(it, f) for the two mappers of TupleOf::shrink; the iterator
\* is taken by value (xs), so it is evaluated once
mapPrepend(it, head) ==
    CHOOSE r \in {[j \in 1 .. Len(xs) |-> <<head>> \o xs[j]] : xs \in {it}} : TRUE

mapAppend(it, tail) ==
    CHOOSE r \in {[j \in 1 .. Len(xs) |-> <<xs[j]>> \o tail] : xs \in {it}} : TRUE

sequentially(a, b) == a \o b

\* lambda(callable) with a callable that returns a std::unique_ptr, a
\* type that cannot be copied
UniqueG == LambdaG("unique")

\* the characters that the statements of the switch of Character::shrink
\* insert, from the statement after "default:" down to the one after
\* "case 'b':": '3' '2' '1' 'C' 'B' 'A' 'c' 'b' 'a'
Inserted == <<51, 50, 49, 67, 66, 65, 99, 98, 97>>

\* the labels of the switch: statement j follows label j, and the last
\* label, case 'a', is followed by the empty statement
CaseLabels == <<"default", 51, 50, 49, 67, 66, 65, 99, 98, 97>>

\* the label that switch (value) jumps to
Character_label(value) ==
    IF \E j \in 2 .. Len(CaseLabels) : CaseLabels[j] = value
    THEN CHOOSE j \in 2 .. Len(CaseLabels) : CaseLabels[j] = value
    ELSE 1

RECURSIVE Character_fallThrough(_, _)

\* the statements from label j to the end of the switch, none of which
\* ends with a break: chars.insert(chars.begin(), c)
Character_fallThrough(j, chars) ==
    IF j > Len(Inserted) THEN chars
    ELSE Character_fallThrough(j + 1, <<Inserted[j]>> \o chars)

\* the switch always starts at its first statement: all nine characters
Character_shrink_all(value) == constant(Character_fallThrough(1, <<>>))

\* the switch enters one label early: the value itself is a candidate
Character_shrink_early(value) ==
    constant(Character_fallThrough(
                 IF Character_label(value) = 1 THEN 1
                 ELSE Character_label(value) - 1, <<>>))

Character_shrink(value) ==
    constant(Character_fallThrough(Character_label(value), <<>>))

RECURSIVE IsCopyConstructible(_)

\* detail::IsCopyConstructible of the type a generator generates
IsCopyConstructible(g) ==
    CASE g.k = "lambda" -> g.f # "unique"
      [] g.k \in {"resize", "scale", "noShrink", "suchThat", "rescue"} ->
            IsCopyConstructible(g.g)
      [] g.k = "oneOf" -> IsCopyConstructible(Head(g.gs))
      [] g.k \in {"vector", "collection"} -> IsCopyConstructible(g.g)
      [] g.k = "tupleOf" -> \A i \in 1 .. Len(g.gs) : IsCopyConstructible(g.gs[i])
      [] g.k = "pairOf" -> IsCopyConstructible(g.g1) /\ IsCopyConstructible(g.g2)
      [] OTHER -> TRUE

RECURSIVE removeChunks_from(_, _, _)

\* the chunks of the given size from the position pos on, then the smaller
\* chunks
removeChunks_from(xs, size, pos) ==
    IF size = 0 THEN nothing
    ELSE IF pos + size - 1 > Len(xs) THEN removeChunks_from(xs, size - 1, 1)
    ELSE <<SubSeq(xs, 1, pos - 1) \o SubSeq(xs, pos + size, Len(xs))>>
         \o removeChunks_from(xs, size, pos + 1)

\* shrink::removeChunks: xs without a contiguous chunk, the larger chunks
\* first, down to every single element
removeChunks(xs) == removeChunks_from(xs, Len(xs), 1)

RECURSIVE Shrink(_, _)

\* the tail is shrunk before the head
TupleOf_shrink_tailFirst(g, value) ==
    IF g.gs = <<>> THEN nothing
    ELSE IF ~IsCopyConstructible(g) THEN nothing
    ELSE sequentially(
             mapPrepend(Shrink(TupleOfG(Tail(g.gs)), Tail(value)), Head(value)),
             mapAppend(Shrink(Head(g.gs), Head(value)), Tail(value)))

\* TupleOf<>::shrink is Generator<T>::shrink; TupleOf<Gen, Gens...>::shrink
\* dispatches on IsCopyConstructible<TupleT>
TupleOf_shrink(g, value) ==
    IF g.gs = <<>> THEN nothing
    ELSE IF ~IsCopyConstructible(g) THEN nothing
    ELSE sequentially(
             mapAppend(Shrink(Head(g.gs), Head(value)), Tail(value)),
             mapPrepend(Shrink(TupleOfG(Tail(g.gs)), Tail(value)), Head(value)))

\* the pair is made a tuple, the candidates are made pairs again
PairOf_shrink(g, value) == Shrink(TupleOfG(<<g.g1, g.g2>>), value)

RECURSIVE eachElement_from(_, _, _)

\* the candidates of shrink::eachElement for the positions from i on
eachElement_from(g, value, i) ==
    IF i > Len(value) THEN nothing
    ELSE sequentially(
             CHOOSE r \in {[j \in 1 .. Len(c) |-> [value EXCEPT ![i] = c[j]]] :
                              c \in {Shrink(g, value[i])}} : TRUE,
             eachElement_from(g, value, i + 1))

\* shrink::eachElement(value, element -> g.shrink(element)): position i
\* replaced by each candidate of its element, position i before i + 1
eachElement(value, g) == eachElement_from(g, value, 1)

Vector_shrink(g, value) ==
    IF ~IsCopyConstructible(g) THEN nothing ELSE eachElement(value, g.g)

Collection_shrink(g, value) ==
    IF ~IsCopyConstructible(g) THEN nothing
    ELSE sequentially(removeChunks(value), eachElement(value, g.g))

Array_shrink(g, value) ==
    IF ~IsCopyConstructible(g) THEN nothing ELSE eachElement(value, g.g)

\* Generator<T>::shrink and its overrides
Shrink(g, value) ==
    CASE g.k = "character" -> Character_shrink(value)
      [] g.k = "tupleOf" -> TupleOf_shrink(g, value)
      [] g.k = "pairOf" -> PairOf_shrink(g, value)
      [] g.k = "resize" -> Shrink(g.g, value)
      [] g.k = "scale" -> Shrink(g.g, value)
      [] g.k = "vector" -> Vector_shrink(g, value)
      [] g.k = "collection" ->
            IF g.c = "array" THEN Array_shrink(g, value) ELSE Collection_shrink(g, value)
      [] OTHER -> nothing

\* the values of the character type
Chars == 0 .. 127

\* the components of the tuples that are shrunk: 'a' 'b' 'A' '3' 'z'
SmallChars == {97, 98, 65, 51, 122}

ComponentGens == <<CharacterG, ResizeG(5, CharacterG), UniqueG, ResizeG(5, UniqueG)>>

Tuples(n) == [1 .. n -> SmallChars]

Shrunk(op, g, value) ==
    /\ pc = "idle"
    /\ pc' = "done"
    /\ last' = [g |-> g, value |-> value, op |-> op, cands |-> Shrink(g, value)]
    /\ UNCHANGED <<build, nodeStack, sizeStack, noShrinkStack, engines, samples, sg, cur>>

\* character<T>().shrink(value)
CharacterShrink == \E c \in Chars : Shrunk("characterShrink", CharacterG, c)

\* tupleOf(g1, ..., gN).shrink(value)
TupleOfShrink ==
    \E n \in 0 .. MaxArity : \E ix \in [1 .. n -> 1 .. Len(ComponentGens)] :
        \E t \in Tuples(n) :
            Shrunk("tupleShrink", TupleOfG([i \in 1 .. n |-> ComponentGens[ix[i]]]), t)

\* pairOf(g1, g2).shrink(value)
PairOfShrink ==
    \E i1 \in 1 .. Len(ComponentGens), i2 \in 1 .. Len(ComponentGens) :
        \E t \in Tuples(2) :
            Shrunk("tupleShrink", PairOfG(ComponentGens[i1], ComponentGens[i2]), t)

\* the containers that are shrunk: sequences of at most MaxLen characters
SmallSeqs == UNION {Tuples(n) : n \in 0 .. MaxLen}

\* vector<Container>(n, g).shrink(value)
VectorShrink ==
    \E i \in 1 .. Len(ComponentGens), n \in 0 .. MaxLen : \E v \in Tuples(n) :
        Shrunk("vectorShrink", VectorG("seq", n, ComponentGens[i]), v)

\* collection<Container>(g).shrink(value)
CollectionShrink ==
    \E i \in 1 .. Len(ComponentGens) : \E v \in SmallSeqs :
        Shrunk("collectionShrink", CollectionG("seq", ComponentGens[i]), v)

\* collection<std::array<T, N>>(g).shrink(value)
ArrayShrink ==
    \E i \in 1 .. Len(ComponentGens), n \in 0 .. MaxLen : \E v \in Tuples(n) :
        Shrunk("arrayShrink", ArrayG(n, ComponentGens[i]), v)

(* The shrink search: greedy, the first candidate on which the property   *)
(* still fails becomes the value.  The property is any property: each     *)
(* candidate may be the first that fails, or none may fail.               *)

SearchGens ==
    <<CharacterG, PairOfG(CharacterG, CharacterG)>>
    \o [n \in 1 .. MaxArity + 1 |-> TupleOfG([i \in 1 .. n - 1 |-> CharacterG])]

StartValues(g) ==
    CASE g.k = "character" -> SmallChars
      [] g.k = "pairOf" -> Tuples(2)
      [] g.k = "tupleOf" -> Tuples(Len(g.gs))

\* a failing value is handed to the search
SearchStart ==
    /\ pc = "idle"
    /\ \E i \in 1 .. Len(SearchGens) : \E v \in StartValues(SearchGens[i]) :
          /\ sg' = SearchGens[i]
          /\ cur' = v
    /\ pc' = "search"
    /\ UNCHANGED <<build, nodeStack, sizeStack, noShrinkStack, engines, last, samples>>

\* candidate j is the first on which the property fails
SearchStep ==
    /\ pc = "search"
    /\ LET cands == Shrink(sg, cur)
       IN \E j \in 1 .. Len(cands) : cur' = cands[j]
    /\ UNCHANGED <<build, nodeStack, sizeStack, noShrinkStack, engines, pc, last, samples, sg>>

\* the property fails on no candidate: the value is minimal
SearchStop ==
    /\ pc = "search"
    /\ pc' = "minimal"
    /\ UNCHANGED <<build, nodeStack, sizeStack, noShrinkStack, engines, last, samples, sg, cur>>

NextShrink ==
    \/ CharacterShrink
    \/ TupleOfShrink
    \/ PairOfShrink
    \/ VectorShrink
    \/ CollectionShrink
    \/ ArrayShrink
    \/ SearchStart
    \/ SearchStep
    \/ SearchStop

\* shrink() reads no implicit parameter and computes nothing that the
\* build decides: one context stands for all
InitShrink ==
    /\ InitFixed
    /\ nodeStack = <<NullNode>>
    /\ build.args = "ltr" /\ build.overflow = "wrap" /\ build.convert = "indefinite"

\* the search goes on as long as it has something to do
SpecShrink == InitShrink /\ [][NextShrink]_vars
              /\ WF_vars(SearchStep \/ SearchStop)

---------------------------------------------------------------------------
Did(op) == pc = "done" /\ last.op = op

\* C1 as stated: ranged(lo, hi) returns a value of [lo, hi) when lo < hi, returns a
\* when lo = hi = a, and raises GenerationFailure when hi < lo, for every
\* lo, hi of the integer type and every word drawn.
C1_RangedWithinBounds ==
    Did("ranged") =>
        /\ last.g.min < last.g.max =>
              /\ last.tag = "val"
              /\ last.val \in last.g.min .. (last.g.max - 1)
        /\ last.g.min = last.g.max => last.tag = "val" /\ last.val = last.g.min
        /\ last.g.max < last.g.min => last.tag = "GenerationFailure"

\* the widest range of int, whose width does not fit int, in a build that
\* traps the overflow of m_max - m_min: no value is returned
C1_Witness ==
    /\ Did("ranged")
    /\ last.g = RangedG(TInt, MinOf(TInt), MaxOf(TInt))
    /\ last.before.build.overflow = "trap"
    /\ last.tag = "Aborted"

---------------------------------------------------------------------------
\* the positions of the events ev of a trace
Events(log, ev) == {i \in 1 .. Len(log) : log[i].ev = ev}

StartSize == Top(last.before.size)

\* C2 as stated: with a predicate that is always false, suchThat raises
\* GenerationFailure after at most 100 consecutive rejections.
C2_GivesUpAfter100 ==
    (Did("suchThat") /\ last.g.pred = "never" /\ last.g.g # LambdaG("throw")) =>
        /\ last.tag = "GenerationFailure"
        /\ Cardinality(Events(last.log, "reject")) <= 100

\* C2 amended: with a predicate that is always false, suchThat raises
\* GenerationFailure after 101 consecutive rejections, the attempts
\* k = 0 .. 100 made at the sizes startSize + k; it does not loop forever.
C2_GivesUpAfter101 ==
    (Did("suchThat") /\ last.g.pred = "never" /\ last.g.g # LambdaG("throw")) =>
        /\ last.tag = "GenerationFailure"
        /\ Cardinality(Events(last.log, "reject")) = 101
        /\ {last.log[i].x : i \in Events(last.log, "reject")} = 0 .. 100
        /\ \A i \in Events(last.log, "reject") :
              last.log[i].size = StartSize + last.log[i].x

\* an always-false predicate over arbitrary<int>, from a size above 0
C2_Witness ==
    /\ Did("suchThat")
    /\ last.g = SuchThatG(ArbitraryG(TInt), "never")
    /\ StartSize > 0
    /\ last.tag = "GenerationFailure"

\* the lengths a sequence container can get from this context
LengthsReachable ==
    {Len(Generate(CollectionG("seq", ConstantG(1)),
                  [last.before EXCEPT !.eng = <<seed>>]).val) : seed \in Seeds}

\* C5 as stated: collection(g) at size s draws a length of [0, s + 1],
\* the collection has at most that many elements, and every length of
\* [0, s + 1] is reachable for a container that accepts every element.
C5_LengthUpToSizePlus1 ==
    (Did("collection") /\ last.g.c # "array") =>
        /\ \A i \in Events(last.log, "length") : last.log[i].x \in 0 .. (StartSize + 1)
        /\ last.tag = "val" => Len(last.val) \in 0 .. (StartSize + 1)
        /\ 0 .. (StartSize + 1) \subseteq LengthsReachable

\* C5 amended: collection(g) at size s, for a container that can grow,
\* draws one length of [0, s]; a container that accepts every element
\* gets exactly that many elements, any other at most that many; every
\* length of [0, s] is reachable.  For std::array<T, N> no length is
\* drawn and the array returned has N elements.
C5_LengthUpToSize ==
    Did("collection") =>
        IF last.g.c = "array"
        THEN /\ Events(last.log, "length") = {}
             /\ last.tag = "val" => Len(last.val) = last.g.n
        ELSE /\ Cardinality(Events(last.log, "length")) = 1
             /\ \A i \in Events(last.log, "length") :
                   /\ last.log[i].x \in 0 .. StartSize
                   /\ last.tag = "val" =>
                         /\ Len(last.val) <= last.log[i].x
                         /\ last.g.c = "seq" => Len(last.val) = last.log[i].x
             /\ LengthsReachable = 0 .. StartSize

\* a sequence of the largest length, size + 0 elements more than size - 1
C5_Witness ==
    /\ Did("collection")
    /\ last.g.c = "seq"
    /\ StartSize = MaxSize
    /\ last.tag = "val"
    /\ Len(last.val) = StartSize

\* the rejections of element i in a trace of vector
Rejections(log, i) == {j \in Events(log, "reject") : log[j].x = i}

\* every attempt to add element i is made at the context size plus the
\* number of rejections of element i so far
VectorSizesGrow ==
    \A j \in Events(last.log, "reject") \cup Events(last.log, "accept") :
        last.log[j].size =
            StartSize + Cardinality({m \in Rejections(last.log, last.log[j].x) : m < j})

\* the element that vector gave up on
FailedElement == Cardinality(Events(last.log, "accept"))

\* C6 as stated: vector(n, g) returns exactly n elements or raises
\* GenerationFailure; an element is re-drawn at a size one larger after
\* each rejection, and vector gives up after 100 rejections of an element.
C6_GivesUpAfter100 ==
    (Did("vector") /\ last.g.g # LambdaG("throw")) =>
        /\ last.tag \in {"val", "GenerationFailure"}
        /\ last.tag = "val" => Len(last.val) = last.g.n
        /\ VectorSizesGrow
        /\ last.tag = "GenerationFailure" =>
              Cardinality(Rejections(last.log, FailedElement)) = 100

\* C6 amended: as stated, but vector gives up after 101 rejections of
\* the same element (its first draw and 100 re-draws), and an element
\* that is accepted was rejected at most 100 times.
C6_GivesUpAfter101 ==
    (Did("vector") /\ last.g.g # LambdaG("throw")) =>
        /\ last.tag \in {"val", "GenerationFailure"}
        /\ last.tag = "val" =>
              /\ Len(last.val) = last.g.n
              /\ Cardinality(Events(last.log, "accept")) = last.g.n
        /\ VectorSizesGrow
        /\ \A i \in 0 .. (FailedElement - 1) :
              Cardinality(Rejections(last.log, i)) <= 100
        /\ last.tag = "GenerationFailure" =>
              /\ FailedElement < last.g.n
              /\ Cardinality(Rejections(last.log, FailedElement)) = 101

\* a set that got its first element and gave up on the second
C6_Witness ==
    /\ Did("vector")
    /\ last.g = VectorG("set", 2, ConstantG(1))
    /\ last.tag = "GenerationFailure"
    /\ FailedElement = 1

\* a set whose second element was drawn again after a rejection
C6_WitnessRedraw ==
    /\ Did("vector")
    /\ last.g.c = "set"
    /\ last.tag = "val"
    /\ Len(last.val) = 2
    /\ Rejections(last.log, 1) # {}

\* the myId values of the generators that pickWithId(id) invokes
Invoked(gs, id) ==
    LET log == Multiplexer_pickWithId(gs, id, last.before).st.log
    IN {log[i].x : i \in Events(log, "pickWithId")}

\* C10: oneOf draws an index of [0, N) at nominal size and invokes exactly
\* one generator, at the size of the caller; distinct indices invoke
\* distinct generators.
C10_OneOfDelegates ==
    Did("oneOf") =>
        LET N == Len(last.g.gs)
        IN /\ Cardinality(Events(last.log, "id")) = 1
           /\ \A i \in Events(last.log, "id") : last.log[i].x \in 0 .. (N - 1)
           /\ last.log[1].ev = "draw" /\ last.log[1].size = kNominalSize
           /\ Cardinality(Events(last.log, "pickWithId")) = 1
           /\ \A i \in Events(last.log, "pickWithId") \cup Events(last.log, "read") :
                 /\ last.log[i].size = StartSize
                 /\ last.log[i].noShrink = Top(last.before.noShrink)
           /\ \A id \in 0 .. (N - 1) : Cardinality(Invoked(last.g.gs, id)) = 1
           /\ \A id1, id2 \in 0 .. (N - 1) :
                 Invoked(last.g.gs, id1) = Invoked(last.g.gs, id2) => id1 = id2

\* the first of three generators was picked, and ran at the caller's size
C10_Witness ==
    /\ Did("oneOf")
    /\ Len(last.g.gs) = 3
    /\ last.tag = "val"
    /\ last.val = 11
    /\ StartSize # kNominalSize

\* the size and the flag that a generator reads under the override w, in a
\* context that reads c
Under(w, c) ==
    CASE w = "resize0" -> [c EXCEPT !.size = 0]
      [] w = "resize5" -> [c EXCEPT !.size = 5]
      [] w = "half" -> [c EXCEPT !.size = Trunc(c.size, 2)]
      [] w = "twice" -> [c EXCEPT !.size = 2 * c.size]
      [] w = "noShrink" -> [c EXCEPT !.noShrink = TRUE]

Before == [size |-> Top(last.before.size), noShrink |-> Top(last.before.noShrink)]

Reads(e, c) == e.ev = "read" /\ e.size = c.size /\ e.noShrink = c.noShrink

\* C9: when generate() of resize, scale or noShrink finishes, by a return
\* or by an exception (caught by a rescue or not), the size and the
\* NoShrink flag of the context are what they were before the call; the
\* generator inside reads the overridden value, and when a nested
\* override has ended the value of the enclosing one is read again.
C9_OverridesRestored ==
    Did("scoped") =>
        LET shape == last.args[1]
            w1 == last.args[2]
            w2 == last.args[3]
            reader == LambdaG("currentSize")
            body == CASE shape = "one" -> last.g.g
                      [] shape = "two" -> last.g.g.g
                      [] shape = "then" -> last.g.g.gs[2]
                      [] shape = "rescued" -> last.g.g.g.g
                      [] shape = "rescueInside" -> last.g.g.g.g
            log == last.log
        IN /\ sizeStack = last.before.size
           /\ noShrinkStack = last.before.noShrink
           /\ (shape = "one" /\ body = reader) =>
                 Len(log) = 1 /\ Reads(log[1], Under(w1, Before))
           /\ (shape \in {"two", "rescued", "rescueInside"} /\ body = reader) =>
                 Len(log) = 1 /\ Reads(log[1], Under(w2, Under(w1, Before)))
           /\ (shape = "then" /\ body = reader) =>
                 /\ Len(log) = 2
                 /\ Reads(log[IF build.args = "ltr" THEN 1 ELSE 2],
                          Under(w2, Under(w1, Before)))
                 /\ Reads(log[IF build.args = "ltr" THEN 2 ELSE 1], Under(w1, Before))

\* a suchThat gave up inside resize(5, scale(1/2, .)), a rescue caught it
C9_Witness ==
    /\ Did("scoped")
    /\ last.args = <<"rescued", "resize5", "half">>
    /\ last.g.g.g.g = SuchThatG(ConstantG(0), "never")
    /\ last.tag = "val"
    /\ last.val = -1
    /\ StartSize # 5

\* after a nested resize has ended, the size of the enclosing one is read
C9_WitnessUnwind ==
    /\ Did("scoped")
    /\ last.args = <<"then", "resize5", "resize0">>
    /\ build.args = "ltr"
    /\ last.tag = "val"
    /\ last.val = <<0, 5>>

\* C3: two calls of sample with the same seed, generator and size make
\* the same draws and end with the same value or the same exception.
C3_Deterministic ==
    Len(samples) = 2 =>
        /\ samples[1].args = samples[2].args
        /\ samples[1].tag = samples[2].tag
        /\ samples[1].val = samples[2].val
        /\ samples[1].log = samples[2].log

\* vector sampled twice, after a rejected element and a draw in between
C3_Witness ==
    /\ Len(samples) = 2
    /\ pc = "done"
    /\ SampleGens[samples[2].args[2]].k = "vector"
    /\ samples[2].tag = "val"
    /\ Events(samples[2].log, "reject") # {}

\* the canonical order 'a' 'b' 'c' 'A' 'B' 'C' '1' '2' '3'
Canon == <<97, 98, 99, 65, 66, 67, 49, 50, 51>>

\* the place of a character in the canonical order; 9 when it has none
Rank(c) ==
    IF \E k \in 1 .. Len(Canon) : Canon[k] = c
    THEN (CHOOSE k \in 1 .. Len(Canon) : Canon[k] = c) - 1
    ELSE Len(Canon)

RECURSIVE SumRanks(_, _)

SumRanks(t, i) == IF i > Len(t) THEN 0 ELSE Rank(t[i]) + SumRanks(t, i + 1)

\* the well-founded measure of a value of the generator g
Measure(g, v) == IF g.k = "character" THEN Rank(v) ELSE SumRanks(v, 1)

\* C4: every committed step of the shrink search over Character, TupleOf
\* and PairOf makes the value strictly smaller in a well-founded order,
\* and the search ends.
C4_ShrinkSearchTerminates ==
    /\ [][pc = "search" => /\ Measure(sg, cur') <= Measure(sg, cur)
                           /\ cur' # cur => Measure(sg, cur') < Measure(sg, cur)]_vars
    /\ (pc = "search") ~> (pc = "minimal")

\* a search that ended on a pair it reached by shrinking both components
C4_Witness ==
    /\ pc = "minimal"
    /\ sg = PairOfG(CharacterG, CharacterG)
    /\ cur = <<99, 66>>

\* C8: character().shrink(c) yields, in the canonical order, the
\* canonical characters before c when c is canonical and all nine when
\* it is not; c is never a candidate.
C8_CharacterShrinkCanonical ==
    Did("characterShrink") =>
        /\ last.cands = SubSeq(Canon, 1, Rank(last.value))
        /\ \A j \in 1 .. Len(last.cands) : last.cands[j] # last.value

\* the candidates of 'C'
C8_Witness ==
    /\ Did("characterShrink")
    /\ last.value = 67
    /\ last.cands = <<97, 98, 99, 65, 66>>

\* the component generators of a tupleOf or pairOf
Components(g) == IF g.k = "pairOf" THEN <<g.g1, g.g2>> ELSE g.gs

RECURSIVE ByIndex(_, _, _)

\* for the indices from i on, in increasing order: the tuple t with
\* component i replaced by each candidate of gi.shrink(t[i]), in order
ByIndex(gs, t, i) ==
    IF i > Len(gs) THEN <<>>
    ELSE LET c == Shrink(gs[i], t[i])
         IN [j \in 1 .. Len(c) |-> [t EXCEPT ![i] = c[j]]] \o ByIndex(gs, t, i + 1)

Differing(t, u) == {i \in 1 .. Len(t) : t[i] # u[i]}

\* C7 as stated: tupleOf(g1..gN).shrink(t), and pairOf, yield for each
\* index i in increasing order the tuples t with component i replaced by
\* each candidate of gi.shrink(t[i]); every candidate differs from t in
\* exactly one component.
C7_TupleShrinkByIndex ==
    Did("tupleShrink") =>
        /\ last.cands = ByIndex(Components(last.g), last.value, 1)
        /\ \A j \in 1 .. Len(last.cands) :
              /\ Len(last.cands[j]) = Len(last.value)
              /\ Cardinality(Differing(last.value, last.cands[j])) = 1

\* C7 amended: that holds when the type of the tuple can be copied; when
\* it cannot (a component is a std::unique_ptr), the shrink yields nothing.
C7_TupleShrinkByIndexIfCopyable ==
    Did("tupleShrink") =>
        IF IsCopyConstructible(last.g)
        THEN /\ last.cands = ByIndex(Components(last.g), last.value, 1)
             /\ \A j \in 1 .. Len(last.cands) :
                   /\ Len(last.cands[j]) = Len(last.value)
                   /\ Cardinality(Differing(last.value, last.cands[j])) = 1
             /\ \A j1, j2 \in 1 .. Len(last.cands) :
                   j1 < j2 => \A i1 \in Differing(last.value, last.cands[j1]) :
                                 \A i2 \in Differing(last.value, last.cands[j2]) :
                                     i1 <= i2
        ELSE last.cands = <<>>

\* a tuple of two characters, both with candidates
C7_Witness ==
    /\ Did("tupleShrink")
    /\ last.g = TupleOfG(<<CharacterG, CharacterG>>)
    /\ last.value = <<98, 65>>
    /\ last.cands = <<<<97, 65>>, <<98, 97>>, <<98, 98>>, <<98, 99>>>>

---------------------------------------------------------------------------
\* the sizes in effect at the reads and draws of the inner generator
InnerSizes ==
    {last.log[i].size : i \in Events(last.log, "read") \cup Events(last.log, "draw")}

\* bit i of a, the lowest being bit 1
Bit(a, i) == IF i >= 1 /\ i <= Len(a) THEN a[i] ELSE 0

\* C11 as stated: scale(k, g) runs the inner draw of g with the size
\* overridden to round(size * k), size being the size at entry (here for
\* the short factors k >= 1/2^MaxExponent and the sizes from 0 on).
C11_ScaleRounds ==
    (/\ Did("scale") /\ last.args[1] >= 0
     /\ ~last.g.neg /\ last.g.e >= 0 /\ Len(last.g.m) < DoubleMantBits) =>
        InnerSizes = {Round(last.args[1] * ValueOfBits(last.g.m), 2 ^ last.g.e)}

\* C11 amended: scale(k, g) runs the inner draw of g with the size
\* overridden to the double product size * k converted to int, size being
\* the size at entry.  The conversion discards the fraction (truncation
\* toward zero: down for a positive product, up for a negative one); the
\* double product is the exact product where that is a double, and else the
\* double nearest to it, which is the next whole number where the exact
\* product lies within half a unit in the last place below it.  A product
\* whose integral part no int holds has no defined conversion: the inner
\* size is then the int that the build's conversion instruction gives.
C11_ScaleTruncates ==
    Did("scale") =>
        LET n == last.args[1]
            e == last.g.e
            neg == (n < 0) # last.g.neg
            p == Normal(MulBits(last.g.m, Abs(n)))
            s == Len(p) - DoubleMantBits
            whole == Normal(IntegralPart(p, e))
            next == s >= 1 /\ e >= s /\ \A i \in s .. e : Bit(p, i) = 1
        IN /\ last.tag = "val"
           /\ IF Len(whole) < IntBits /\ ~(next /\ ValueOfBits(whole) = MaxInt)
              THEN LET z == ValueOfBits(whole) + (IF next THEN 1 ELSE 0)
                   IN InnerSizes = {IF neg THEN -z ELSE z}
              ELSE InnerSizes \subseteq {MinInt, MaxInt}
           /\ (Len(last.g.m) < DoubleMantBits /\ e >= 0) =>
                 LET x == n * ValueOfBits(last.g.m) * (IF last.g.neg THEN -1 ELSE 1)
                 IN \A z \in InnerSizes :
                       /\ z = Trunc(x, 2 ^ e)
                       /\ x >= 0 => (z * 2 ^ e <= x /\ x < (z + 1) * 2 ^ e)
                       /\ x <= 0 => ((z - 1) * 2 ^ e < x /\ x <= z * 2 ^ e)

\* size 3 and k = 1/2: the inner generator reads size 1, not 2
C11_Witness ==
    /\ Did("scale")
    /\ last.args[1] = 3
    /\ ~last.g.neg /\ last.g.m = Bits(1) /\ last.g.e = 1
    /\ last.g.g = LambdaG("currentSize")
    /\ last.val = 1

\* size 5 and k = 0.6, the double 5404319552844595 * 2^-53: the product
\* 3 - 2^-53 is no double, the nearest double is 3, and the inner generator
\* reads size 3, not 2
C11_WitnessRounded ==
    /\ Did("scale")
    /\ last.args[1] = 5
    /\ ~last.g.neg /\ last.g.e = DoubleMantBits
    /\ last.g.m = Normal(HexBits(<<1, 3, 3, 3, 3, 3, 3, 3, 3, 3, 3, 3, 3, 3>>))
    /\ last.g.g = LambdaG("currentSize")
    /\ last.val = 3

\* size 3 and k = 2^30: no int holds the product
C11_WitnessUndefined ==
    /\ Did("scale")
    /\ last.args[1] = 3
    /\ ~last.g.neg /\ last.g.m = Bits(1) /\ last.g.e = -(IntBits - 2)
    /\ last.g.g = LambdaG("currentSize")
    /\ last.val = MinInt

---------------------------------------------------------------------------
\* the value that an attempt of g returned, from the event of the attempt
AttemptValue(g, x) == IF g = ArbitraryG(TInt) THEN Convert(x, TInt) ELSE x

\* C12: the attempts of suchThat(g, pred) are k = 0, 1, 2, ...: attempt k
\* runs g at the size startSize + k with no-shrink set; every attempt
\* before the last is rejected, the value returned is that of the first
\* attempt that pred accepts and satisfies pred, and nothing is drawn
\* after it.
C12_AttemptsInOrder ==
    Did("suchThat") =>
        LET log == last.log
            m == Cardinality(Events(log, "reject"))
            pred == last.g.pred
        IN /\ last.tag = "val" => Pred(pred, last.val)
           /\ {log[i].x : i \in Events(log, "reject")} = 0 .. (m - 1)
           /\ \A i \in Events(log, "reject") : log[i].size = StartSize + log[i].x
           /\ \A i \in Events(log, "draw") \cup Events(log, "read") : log[i].noShrink
           /\ last.g.g \in {ArbitraryG(TInt), LambdaG("currentSize")} =>
                 /\ Len(log) = 2 * m + (IF last.tag = "val" THEN 1 ELSE 0)
                 /\ \A k \in 0 .. (m - 1) :
                       /\ log[2 * k + 1].ev # "reject"
                       /\ log[2 * k + 1].size = StartSize + k
                       /\ ~Pred(pred, AttemptValue(last.g.g, log[2 * k + 1].x))
                       /\ log[2 * k + 2].ev = "reject"
                       /\ log[2 * k + 2].x = k
                 /\ last.tag = "val" =>
                       /\ log[2 * m + 1].ev # "reject"
                       /\ log[2 * m + 1].size = StartSize + m
                       /\ last.val = AttemptValue(last.g.g, log[2 * m + 1].x)
           /\ last.g.g = ConstantG(1) =>
                 (last.tag = "val" => m = 0 /\ last.val = 1)

\* positive over a reader of the size, entered at size 0: attempt 0 reads
\* 0 and is rejected, attempt 1 reads 1 and is returned
C12_Witness ==
    /\ Did("suchThat")
    /\ last.g.g = LambdaG("currentSize")
    /\ last.g.pred = "positive"
    /\ StartSize = 0
    /\ last.tag = "val" /\ last.val = 1
    /\ Len(last.log) = 3

====
